---- MODULE Spec2Model ----
(***************************************************************************)
(* Intelligent interruption handling of the voice agent.                   *)
(*                                                                         *)
(* interrupt_config.py holds the two word sets and is_backchannel_only,    *)
(* the lexical classifier of a transcript.  basic_agent.py configures the  *)
(* session with resume_false_interruption and false_interruption_timeout.  *)
(* Text is a sequence of one-character strings, so that the substring      *)
(* scan, the punctuation removal and the split are computed character by   *)
(* character as the Python does.                                           *)
(***************************************************************************)
EXTENDS Naturals, Sequences, FiniteSets

----------------------------------------------------------------------------
(* Bounds of the model.                                                    *)

\* Longest transcript handed to the classifier, in chunks of Chunks.
MaxChunks == 4

\* Longest transcript handed to the arbiter, in chunks of Chunks.
MaxUttChunks == 2

\* Highest generation the resume timer is restarted to.
MaxGeneration == 2

----------------------------------------------------------------------------
(* interrupt_config.py: the word sets.                                     *)

BACKCHANNEL_WORDS_with_no == {
    <<"y", "e", "a", "h">>, <<"o", "k">>, <<"o", "k", "a", "y">>, <<"h", "m", "m">>, <<"r", "i", "g", "h", "t">>, <<"u", "h", "-", "h", "u", "h">>,
    <<"a", "h", "a">>, <<"m", "h", "m">>, <<"g", "o", "t", "c", "h", "a">>, <<"u", "n", "d", "e", "r", "s", "t", "o", "o", "d">>, <<"y", "e", "p">>,
    <<"s", "u", "r", "e">>, <<"a", "l", "r", "i", "g", "h", "t">>, <<"y", "u", "p">>, <<"u", "h">>, <<"m", "h", "m", "m">>
} \cup {<<"n", "o">>}

BACKCHANNEL_WORDS == {
    <<"y", "e", "a", "h">>, <<"o", "k">>, <<"o", "k", "a", "y">>, <<"h", "m", "m">>, <<"r", "i", "g", "h", "t">>, <<"u", "h", "-", "h", "u", "h">>,
    <<"a", "h", "a">>, <<"m", "h", "m">>, <<"g", "o", "t", "c", "h", "a">>, <<"u", "n", "d", "e", "r", "s", "t", "o", "o", "d">>, <<"y", "e", "p">>,
    <<"s", "u", "r", "e">>, <<"a", "l", "r", "i", "g", "h", "t">>, <<"y", "u", "p">>, <<"u", "h">>, <<"m", "h", "m", "m">>
}

COMMAND_WORDS == {
    <<"w", "a", "i", "t">>, <<"s", "t", "o", "p">>, <<"n", "o">>, <<"h", "o", "l", "d">>, <<"b", "u", "t">>,
    <<"h", "o", "w", "e", "v", "e", "r">>, <<"a", "c", "t", "u", "a", "l", "l", "y">>, <<"l", "i", "s", "t", "e", "n">>, <<"h", "a", "n", "g">>
}

----------------------------------------------------------------------------
(* Python's str methods, on sequences of characters.                       *)

UpperLetters == <<"A","B","C","D","E","F","G","H","I","J","K","L","M",
                  "N","O","P","Q","R","S","T","U","V","W","X","Y","Z">>

LowerLetters == <<"a","b","c","d","e","f","g","h","i","j","k","l","m",
                  "n","o","p","q","r","s","t","u","v","w","x","y","z">>

\* The characters str.strip() and str.split() treat as whitespace.
Whitespace == {" ", "\t", "\n"}

lower_char(c) ==
    IF \E i \in 1..26 : UpperLetters[i] = c
    THEN LowerLetters[CHOOSE i \in 1..26 : UpperLetters[i] = c]
    ELSE c

\* str.lower()
lower(s) == [i \in 1..Len(s) |-> lower_char(s[i])]

RECURSIVE lstrip(_)
lstrip(s) ==
    IF s # <<>> /\ Head(s) \in Whitespace THEN lstrip(Tail(s)) ELSE s

RECURSIVE rstrip(_)
rstrip(s) ==
    IF s # <<>> /\ s[Len(s)] \in Whitespace
    THEN rstrip(SubSeq(s, 1, Len(s) - 1))
    ELSE s

\* str.strip()
strip(s) == rstrip(lstrip(s))

\* sub in s
contains(s, sub) ==
    \E i \in 0..(Len(s) - Len(sub)) : SubSeq(s, i + 1, i + Len(sub)) = sub

\* s.replace(ch, '')
remove(s, ch) == SelectSeq(s, LAMBDA c : c # ch)

\* s.replace(ch, ' ')
blank(s, ch) == [i \in 1..Len(s) |-> IF s[i] = ch THEN " " ELSE s[i]]

\* str.split() with no argument: the maximal runs of non-whitespace.
\* cur is the run being read, acc the runs read so far.
RECURSIVE split_from(_, _, _)
split_from(s, cur, acc) ==
    IF s = <<>>
    THEN IF cur = <<>> THEN acc ELSE Append(acc, cur)
    ELSE IF Head(s) \in Whitespace
         THEN split_from(Tail(s), <<>>,
                         IF cur = <<>> THEN acc ELSE Append(acc, cur))
         ELSE split_from(Tail(s), Append(cur, Head(s)), acc)

split(s) == split_from(s, <<>>, <<>>)

\* all(word in S for word in ws)
all_in(ws, S) == \A i \in 1..Len(ws) : ws[i] \in S

\* any(word in S for word in ws)
any_in(ws, S) == \E i \in 1..Len(ws) : ws[i] \in S

----------------------------------------------------------------------------
(* interrupt_config.py: is_backchannel_only.                               *)

\* text_lower = text.lower().strip()
text_lower(text) == strip(lower(text))

\* for cmd in COMMAND_WORDS: if cmd in text_lower: return False
has_command_word(tl, commands) == \E cmd \in commands : contains(tl, cmd)

\* text_lower.replace(',', ' ')...: the marks become blanks.
words_of_blanked(tl) ==
    split(blank(blank(blank(blank(tl, ","), "."), "!"), "?"))

\* text_lower.replace(',', '').replace('.', '').replace('?', '').split():
\* the '!' is left in.
words_of_keep_bang(tl) ==
    split(remove(remove(remove(tl, ","), "."), "?"))

\* words = text_lower.replace(',', '').replace('.', '')
\*                   .replace('!', '').replace('?', '').split()
words_of(tl) ==
    split(remove(remove(remove(remove(tl, ","), "."), "!"), "?"))

\* is_backchannel_only without .lower(): text_lower = text.strip()
is_backchannel_only_no_lower(text, backchannel, commands) ==
    IF text = <<>>
    THEN [ret |-> FALSE, line |-> 34, words |-> <<>>]
    ELSE LET tl == strip(text) IN
         IF has_command_word(tl, commands)
         THEN [ret |-> FALSE, line |-> 41, words |-> <<>>]
         ELSE LET ws == words_of(tl) IN
              IF Len(ws) = 0
              THEN [ret |-> FALSE, line |-> 47, words |-> ws]
              ELSE [ret |-> all_in(ws, backchannel), line |-> 52, words |-> ws]

\* is_backchannel_only with any() where the code has all().
is_backchannel_only_any(text, backchannel, commands) ==
    IF text = <<>>
    THEN [ret |-> FALSE, line |-> 34, words |-> <<>>]
    ELSE LET tl == text_lower(text) IN
         IF has_command_word(tl, commands)
         THEN [ret |-> FALSE, line |-> 41, words |-> <<>>]
         ELSE LET ws == words_of(tl) IN
              IF Len(ws) = 0
              THEN [ret |-> FALSE, line |-> 47, words |-> ws]
              ELSE [ret |-> any_in(ws, backchannel), line |-> 52, words |-> ws]

\* is_backchannel_only without the len(words) == 0 test: all() of no words
\* is True.
is_backchannel_only_no_empty_test(text, backchannel, commands) ==
    IF text = <<>>
    THEN [ret |-> FALSE, line |-> 34, words |-> <<>>]
    ELSE LET tl == text_lower(text) IN
         IF has_command_word(tl, commands)
         THEN [ret |-> FALSE, line |-> 41, words |-> <<>>]
         ELSE LET ws == words_of(tl) IN
              [ret |-> all_in(ws, backchannel), line |-> 52, words |-> ws]

\* One call of is_backchannel_only(text) with the module's word sets as
\* given: ret is the value returned, line the return statement that
\* returned it, words the local list `words` (empty when the call returns
\* before line 44).
is_backchannel_only(text, backchannel, commands) ==
    IF text = <<>>
    THEN [ret |-> FALSE, line |-> 34, words |-> <<>>]
    ELSE LET tl == text_lower(text) IN
         IF has_command_word(tl, commands)
         THEN [ret |-> FALSE, line |-> 41, words |-> <<>>]
         ELSE LET ws == words_of(tl) IN
              IF Len(ws) = 0
              THEN [ret |-> FALSE, line |-> 47, words |-> ws]
              ELSE [ret |-> all_in(ws, backchannel), line |-> 52, words |-> ws]

----------------------------------------------------------------------------
(* The transcripts the model feeds in.                                     *)

\* Pieces of transcript: words of both sets in lower and upper case, word
\* fragments that join into a word ("n" "," "o"), an unknown word, a word
\* with an apostrophe, whitespace and punctuation marks.
Chunks == {
    <<"o", "k">>,
    <<"O", "K">>,
    <<"n", "o">>,
    <<"n">>,
    <<"o">>,
    <<"g", "r", "e", "a", "t">>,
    <<"d", "o", "n", "'", "t">>,
    <<" ">>,
    <<"\t">>,
    <<",">>,
    <<"!">>
}

\* The texts made of at most n chunks.
RECURSIVE TextsOf(_)
TextsOf(n) ==
    IF n = 0
    THEN {<<>>}
    ELSE LET S == TextsOf(n - 1) IN S \cup {t \o c : t \in S, c \in Chunks}

Texts == TextsOf(MaxChunks)

UttTexts == TextsOf(MaxUttChunks)

\* The word sets as shipped.
ShippedConfig ==
    [backchannel |-> BACKCHANNEL_WORDS, command |-> COMMAND_WORDS]

\* Word sets a caller has extended so that one word is in both.
OverlapConfigs ==
    {[backchannel |-> BACKCHANNEL_WORDS \cup {w}, command |-> COMMAND_WORDS] :
        w \in COMMAND_WORDS}
    \cup
    {[backchannel |-> BACKCHANNEL_WORDS, command |-> COMMAND_WORDS \cup {w}] :
        w \in BACKCHANNEL_WORDS}

----------------------------------------------------------------------------
(* basic_agent.py: the session's false-interruption options.               *)

resume_false_interruption_off == FALSE

\* AgentSession(resume_false_interruption=True, ...)
resume_false_interruption == TRUE

\* AgentSession(false_interruption_timeout=1.0, ...), in ticks of the clock.
false_interruption_timeout == 1

----------------------------------------------------------------------------
(* State.                                                                  *)

VARIABLES
    config,      \* the module-level word sets: [backchannel, command]
    text,        \* the argument of the call of is_backchannel_only
    run,         \* that call: [ret, line, words]; line = 0 before it returns
    state,       \* the arbiter's state
    generation,  \* the resume timer's generation counter
    timers,      \* resume-timer callbacks not yet delivered:
                 \*   [gen, remaining, cancelled]
    inbox,       \* the utterance observed and not yet processed, if any
    issued,      \* what the last step sent to the session, in order
    lastEvent,   \* the event the last step handled: [kind, gen, cancelled]
    resumedGens  \* the generations resume() was issued for

classifierVars == <<config, text, run>>

arbiterVars ==
    <<state, generation, timers, inbox, issued, lastEvent, resumedGens>>

vars == <<config, text, run, state, generation, timers, inbox, issued,
          lastEvent, resumedGens>>

NotRun == [ret |-> FALSE, line |-> 0, words |-> <<>>]

Event(k) == [kind |-> k, gen |-> 0, cancelled |-> FALSE]

ArbiterInit ==
    /\ state = "Idle"
    /\ generation = 0
    /\ timers = {}
    /\ inbox = <<>>
    /\ issued = <<>>
    /\ lastEvent = Event("init")
    /\ resumedGens = {}

----------------------------------------------------------------------------
(* The classifier called on its own.                                       *)

\* The call of is_backchannel_only(text) runs to its return.
Classify ==
    /\ run.line = 0
    /\ run' = is_backchannel_only(text, config.backchannel, config.command)
    /\ UNCHANGED <<config, text>>
    /\ UNCHANGED arbiterVars

ClassifierInit ==
    /\ config = ShippedConfig
    /\ text \in Texts
    /\ run = NotRun
    /\ ArbiterInit

ClassifierNext == Classify

ClassifierSpec == ClassifierInit /\ [][ClassifierNext]_vars

OverlapInit ==
    /\ config \in OverlapConfigs
    /\ text \in Texts
    /\ run = NotRun
    /\ ArbiterInit

OverlapSpec == OverlapInit /\ [][ClassifierNext]_vars

----------------------------------------------------------------------------
(* The Text Normalizer and the Word-Set Classifier the arbiter consumes.   *)

\* Lines 36 and 44 of is_backchannel_only: the tokens of a text.
Normalize(t) == words_of(text_lower(t))

\* The verdict on one utterance.  BackchannelOnly is what
\* is_backchannel_only returns True for.
classify(t, backchannel, commands) ==
    IF Normalize(t) = <<>> THEN "Empty"
    ELSE IF is_backchannel_only(t, backchannel, commands).ret
         THEN "BackchannelOnly"
    ELSE IF any_in(Normalize(t), commands) THEN "ContainsCommand"
    ELSE "Mixed"

----------------------------------------------------------------------------
(* The Resume Timer.                                                       *)

\* start(timeout): a callback carrying generation g.
NewTimer(g) ==
    [gen |-> g, remaining |-> false_interruption_timeout, cancelled |-> FALSE]

\* cancel(handle) of the timer of generation g: a callback not yet due is
\* withdrawn; one already due is on its way and will still be delivered.
CancelTimer(ts, g) ==
    {IF h.gen = g THEN [h EXCEPT !.cancelled = TRUE] ELSE h :
        h \in {x \in ts : ~(x.gen = g /\ x.remaining > 0)}}

----------------------------------------------------------------------------
(* The Interruption Arbiter.                                               *)

\* "playback started"
PlaybackStarted ==
    /\ state = "Idle"
    /\ state' = "AgentSpeaking"
    /\ issued' = <<>>
    /\ lastEvent' = Event("started")
    /\ UNCHANGED <<generation, timers, inbox, resumedGens>>
    /\ UNCHANGED classifierVars

\* "playback finished normally"
PlaybackFinished ==
    /\ state = "AgentSpeaking"
    /\ state' = "Idle"
    /\ issued' = <<>>
    /\ lastEvent' = Event("finished")
    /\ UNCHANGED <<generation, timers, inbox, resumedGens>>
    /\ UNCHANGED classifierVars

\* The transcription collaborator hands over an utterance.
UtteranceArrives(t) ==
    /\ inbox = <<>>
    /\ inbox' = <<t>>
    /\ issued' = <<>>
    /\ lastEvent' = Event("arrive")
    /\ UNCHANGED <<state, generation, timers, resumedGens>>
    /\ UNCHANGED classifierVars

\* The arbiter handles the waiting utterance.
ProcessUtterance ==
    /\ inbox # <<>>
    /\ LET verdict == classify(Head(inbox), config.backchannel, config.command) IN
       CASE state = "AgentSpeaking" /\ verdict = "BackchannelOnly" ->
              /\ issued' = <<"suppressed">>
              /\ UNCHANGED <<state, timers>>
         [] state = "AgentSpeaking" /\ verdict \in {"ContainsCommand", "Mixed"} ->
              /\ issued' = <<"interrupt">>
              /\ state' = "Interrupted"
              /\ UNCHANGED timers
         [] state = "PendingResume" /\ verdict # "Empty" ->
              /\ timers' = CancelTimer(timers, generation)
              /\ state' = "Interrupted"
              /\ issued' = <<>>
         [] OTHER ->
              /\ issued' = <<>>
              /\ UNCHANGED <<state, timers>>
    /\ inbox' = Tail(inbox)
    /\ lastEvent' = Event("utterance")
    /\ UNCHANGED <<generation, resumedGens>>
    /\ UNCHANGED classifierVars

\* "revisedToNonActionable": the interrupt was a false one.
RevisedToNonActionable ==
    /\ state = "Interrupted"
    /\ generation < MaxGeneration
    /\ IF resume_false_interruption
       THEN /\ state' = "PendingResume"
            /\ generation' = generation + 1
            /\ timers' = timers \cup {NewTimer(generation + 1)}
       ELSE UNCHANGED <<state, generation, timers>>
    /\ issued' = <<>>
    /\ lastEvent' = Event("revised")
    /\ UNCHANGED <<inbox, resumedGens>>
    /\ UNCHANGED classifierVars

\* One tick of the clock passes.
Tick ==
    /\ \E h \in timers : h.remaining > 0
    /\ timers' = {[h EXCEPT !.remaining = IF @ > 0 THEN @ - 1 ELSE 0] : h \in timers}
    /\ issued' = <<>>
    /\ lastEvent' = Event("tick")
    /\ UNCHANGED <<state, generation, inbox, resumedGens>>
    /\ UNCHANGED classifierVars

\* The callback of h delivered whenever it is due, a waiting utterance or not.
TimerFires_before_utterance(h) ==
    /\ h \in timers
    /\ h.remaining = 0
    /\ timers' = timers \ {h}
    /\ lastEvent' = [kind |-> "timer", gen |-> h.gen, cancelled |-> h.cancelled]
    /\ IF state = "PendingResume" /\ h.gen = generation
       THEN /\ state' = "AgentSpeaking"
            /\ issued' = <<"resume">>
            /\ resumedGens' = resumedGens \cup {h.gen}
       ELSE /\ issued' = <<>>
            /\ UNCHANGED <<state, resumedGens>>
    /\ UNCHANGED <<generation, inbox>>
    /\ UNCHANGED classifierVars

\* The callback of h resuming without a look at its generation.
TimerFires_any_generation(h) ==
    /\ h \in timers
    /\ h.remaining = 0
    /\ inbox = <<>>
    /\ timers' = timers \ {h}
    /\ lastEvent' = [kind |-> "timer", gen |-> h.gen, cancelled |-> h.cancelled]
    /\ IF state = "PendingResume"
       THEN /\ state' = "AgentSpeaking"
            /\ issued' = <<"resume">>
            /\ resumedGens' = resumedGens \cup {h.gen}
       ELSE /\ issued' = <<>>
            /\ UNCHANGED <<state, resumedGens>>
    /\ UNCHANGED <<generation, inbox>>
    /\ UNCHANGED classifierVars

\* The callback of timer h is delivered: once, when due, and never ahead of
\* a waiting utterance.
TimerFires(h) ==
    /\ h \in timers
    /\ h.remaining = 0
    /\ inbox = <<>>
    /\ timers' = timers \ {h}
    /\ lastEvent' = [kind |-> "timer", gen |-> h.gen, cancelled |-> h.cancelled]
    /\ IF state = "PendingResume" /\ h.gen = generation
       THEN /\ state' = "AgentSpeaking"
            /\ issued' = <<"resume">>
            /\ resumedGens' = resumedGens \cup {h.gen}
       ELSE /\ issued' = <<>>
            /\ UNCHANGED <<state, resumedGens>>
    /\ UNCHANGED <<generation, inbox>>
    /\ UNCHANGED classifierVars

TimerFiresSome == \E h \in timers : TimerFires(h)

\* "sessionTeardown", or a new turn starts.
SessionTeardown ==
    /\ state \in {"Interrupted", "PendingResume"}
    /\ timers' = IF state = "PendingResume"
                 THEN CancelTimer(timers, generation)
                 ELSE timers
    /\ state' = "Idle"
    /\ issued' = <<>>
    /\ lastEvent' = Event("teardown")
    /\ UNCHANGED <<generation, inbox, resumedGens>>
    /\ UNCHANGED classifierVars

Init ==
    /\ config = ShippedConfig
    /\ text = <<>>
    /\ run = NotRun
    /\ ArbiterInit

Next ==
    \/ PlaybackStarted
    \/ PlaybackFinished
    \/ \E t \in UttTexts : UtteranceArrives(t)
    \/ ProcessUtterance
    \/ RevisedToNonActionable
    \/ Tick
    \/ TimerFiresSome
    \/ SessionTeardown

Spec == Init /\ [][Next]_vars

\* The event loop delivers a due callback and the clock does not stop.
FairSpec == Spec /\ WF_vars(Tick) /\ WF_vars(TimerFiresSome)

----------------------------------------------------------------------------
(* The normalized token sequence of a text, as the specification's Text    *)
(* Normalizer defines it: the text is cut at whitespace, and each piece is *)
(* lowercased and loses its , . ! ? marks; a piece left empty is no token. *)

Punctuation == {",", ".", "!", "?"}

PieceStarts(s) ==
    {i \in 1..Len(s) : s[i] \notin Whitespace /\ (i = 1 \/ s[i - 1] \in Whitespace)}

PieceEnd(s, i) ==
    CHOOSE j \in i..Len(s) :
        /\ \A k \in i..j : s[k] \notin Whitespace
        /\ j = Len(s) \/ s[j + 1] \in Whitespace

RECURSIVE PiecesFrom(_, _)
PiecesFrom(s, i) ==
    LET later == {j \in PieceStarts(s) : j >= i} IN
    IF later = {}
    THEN <<>>
    ELSE LET b == CHOOSE j \in later : \A k \in later : j <= k
             e == PieceEnd(s, b)
         IN  <<SubSeq(s, b, e)>> \o PiecesFrom(s, e + 1)

Token(piece) == SelectSeq(lower(piece), LAMBDA c : c \notin Punctuation)

Tokens(t) ==
    LET P == PiecesFrom(t, 1) IN
    SelectSeq([i \in 1..Len(P) |-> Token(P[i])], LAMBDA tok : tok # <<>>)

AllBackchannel(ts) == \A i \in 1..Len(ts) : ts[i] \in config.backchannel

SomeBackchannel(ts) == \E i \in 1..Len(ts) : ts[i] \in config.backchannel

SomeCommand(ts) == \E i \in 1..Len(ts) : ts[i] \in config.command

\* The verdicts of the specification's classifier, on a text's tokens.
IsEmpty(t) == Tokens(t) = <<>>

IsBackchannelOnly(t) ==
    /\ Tokens(t) # <<>>
    /\ AllBackchannel(Tokens(t))
    /\ ~SomeCommand(Tokens(t))

\* ContainsCommand or Mixed: content the arbiter treats as interrupting.
IsInterrupting(t) == ~IsEmpty(t) /\ ~IsBackchannelOnly(t)

Returned == run.line # 0

----------------------------------------------------------------------------
(* Claims about is_backchannel_only.                                       *)

\* C1: with the shipped word sets, a text whose normalized tokens hold at
\* least one command word makes is_backchannel_only return False, however
\* many backchannel words it also holds: the utterance is never suppressed.
C1_CommandPrecedence ==
    (Returned /\ SomeCommand(Tokens(text))) => run.ret = FALSE

\* A command word and a backchannel word in one text, classified.
C1_Witness ==
    /\ Returned
    /\ SomeCommand(Tokens(text))
    /\ SomeBackchannel(Tokens(text))
    /\ run.ret = FALSE

\* C2: with the shipped word sets, a text whose normalized tokens are not
\* empty and are all backchannel words makes is_backchannel_only return
\* True, whatever its case, whitespace and , . ! ? marks; the scan for
\* command words (the return of line 41) never rejects such a text.
C2_BackchannelOnly ==
    (Returned /\ Tokens(text) # <<>> /\ AllBackchannel(Tokens(text)))
        => (run.ret = TRUE /\ run.line = 52)

\* A backchannel text in upper case with a mark and blanks, accepted.
C2_Witness ==
    /\ run.ret = TRUE
    /\ \E i \in 1..Len(text) : text[i] \in Punctuation
    /\ \E i \in 1..Len(text) : text[i] \in Whitespace
    /\ \E i \in 1..Len(text) : lower_char(text[i]) # text[i]

\* C3: whenever is_backchannel_only returns True, the normalized tokens of
\* the text are not empty, every one is a backchannel word and none is a
\* command word; no tokens, unknown tokens and mixed content return False.
C3_OnlyUnanimous ==
    (Returned /\ run.ret = TRUE) => IsBackchannelOnly(text)

\* A text of several tokens for which True is returned.
C3_Witness ==
    /\ Returned
    /\ run.ret = TRUE
    /\ Len(Tokens(text)) >= 2

DontText == <<"d", "o", "n", "'", "t">>

AllWhitespace(t) == \A i \in 1..Len(t) : t[i] \in Whitespace

\* C9, as amended: when the call reaches line 44 (the text is not empty and
\* its lowercased form holds no command word), the list `words` is the text
\* lowercased, with the marks , . ! ? deleted (not replaced by whitespace)
\* and split on whitespace, so "n,o" is the one token "no"; the apostrophe is
\* no such mark, so "don't" is the one token "don't"; whitespace-only text
\* gives no token, and the empty text returns before any token is computed.
C9_Tokens ==
    /\ run.line \in {47, 52} => run.words = Tokens(text)
    /\ (Returned /\ text = <<"n", ",", "o">>) => run.words = << <<"n", "o">> >>
    /\ (Returned /\ text = DontText) => run.words = <<DontText>>
    /\ (Returned /\ text # <<>> /\ AllWhitespace(text))
           => (run.line = 47 /\ run.words = <<>>)
    /\ (Returned /\ text = <<>>) => run.line = 34

\* The call on "don't" has computed its words.
C9_Witness ==
    /\ run.line = 52
    /\ text = DontText

\* C9, as claimed: the words are the normalized tokens, "don't" gives the
\* single token "dont", and empty or whitespace-only text gives no token.
C9_Original ==
    /\ run.line \in {47, 52} => run.words = Tokens(text)
    /\ (Returned /\ text = DontText) => run.words = << <<"d", "o", "n", "t">> >>
    /\ (Returned /\ AllWhitespace(text)) => run.words = <<>>

\* C10: when one word is in both word sets, a text whose normalized tokens
\* hold that word makes is_backchannel_only return False, also when the
\* word is written with , . ! ? marks inside or around it.
C10_OverlapPrecedence ==
    (Returned /\ \E i \in 1..Len(Tokens(text)) :
                    Tokens(text)[i] \in config.backchannel \cap config.command)
        => run.ret = FALSE

----------------------------------------------------------------------------
(* Claims about the arbiter.                                               *)

\* The step handles the waiting utterance.
UtteranceStep == lastEvent'.kind = "utterance"

\* The step delivers a timer callback.
TimerStep == lastEvent'.kind = "timer"

BackchannelOnlyRet(t) ==
    is_backchannel_only(t, config.backchannel, config.command).ret

\* C4: in AgentSpeaking, an utterance whose tokens are all backchannel words
\* leaves the state AgentSpeaking and sends only `suppressed`, no
\* interrupt(); an utterance with a command word or with other content sends
\* interrupt() exactly once and moves to Interrupted; interrupt() is never
\* sent for a backchannel-only utterance.
C4_SuppressOrInterrupt ==
    [][(UtteranceStep /\ state = "AgentSpeaking") =>
          /\ IsBackchannelOnly(Head(inbox)) =>
                (state' = "AgentSpeaking" /\ issued' = <<"suppressed">>)
          /\ IsInterrupting(Head(inbox)) =>
                (state' = "Interrupted" /\ issued' = <<"interrupt">>)
          /\ issued' = <<"interrupt">> => ~IsBackchannelOnly(Head(inbox))
      ]_vars

\* A backchannel utterance was suppressed while the agent speaks.
C4_Witness ==
    /\ lastEvent.kind = "utterance"
    /\ state = "AgentSpeaking"
    /\ issued = <<"suppressed">>

\* C5: from Interrupted, revisedToNonActionable moves to PendingResume and
\* starts the resume timer with the configured timeout; the callback of the
\* current generation, delivered in PendingResume, sends resume() exactly
\* once and moves to AgentSpeaking; and unless an utterance arrives or the
\* session is torn down first, that happens eventually.
C5_ResumeAfterTimeout ==
    /\ [][(lastEvent'.kind = "revised" /\ state = "Interrupted") =>
             /\ state' = "PendingResume"
             /\ generation' = generation + 1
             /\ [gen |-> generation', remaining |-> false_interruption_timeout,
                 cancelled |-> FALSE] \in timers'
         ]_vars
    /\ [][(TimerStep /\ state = "PendingResume" /\ lastEvent'.gen = generation) =>
             /\ state' = "AgentSpeaking"
             /\ issued' = <<"resume">>
             /\ lastEvent'.gen \notin resumedGens
         ]_vars
    /\ (state = "PendingResume" /\ inbox = <<>>)
          ~> \/ inbox # <<>>
             \/ state = "Idle"
             \/ state = "AgentSpeaking" /\ issued = <<"resume">>

\* resume() was sent and the agent speaks again.
C5_Witness ==
    /\ lastEvent.kind = "timer"
    /\ state = "AgentSpeaking"
    /\ issued = <<"resume">>
    /\ resumedGens # {}

\* C6: in PendingResume an utterance with at least one token cancels the
\* pending resume and moves to Interrupted; the callback of a cancelled
\* timer never sends resume(); and no callback is delivered while an
\* utterance waits, so an utterance observed in the tick of the deadline is
\* handled first.
C6_UtteranceCancelsResume ==
    [][/\ (UtteranceStep /\ state = "PendingResume" /\ ~IsEmpty(Head(inbox))) =>
             /\ state' = "Interrupted"
             /\ issued' = <<>>
             /\ \A h \in timers' : h.gen = generation => h.cancelled
       /\ (TimerStep /\ lastEvent'.cancelled) =>
             (issued' = <<>> /\ state' = state)
       /\ TimerStep => inbox = <<>>
      ]_vars

\* The callback of a cancelled timer was delivered.
C6_Witness ==
    /\ lastEvent.kind = "timer"
    /\ lastEvent.cancelled

\* C7: a callback whose generation is not the current one changes nothing
\* and sends nothing; resume() is sent only by a callback of the current
\* generation, and at most once per generation.
C7_StaleTimerDiscarded ==
    [][/\ (TimerStep /\ lastEvent'.gen # generation) =>
             /\ state' = state
             /\ issued' = <<>>
             /\ generation' = generation
             /\ resumedGens' = resumedGens
       /\ issued' = <<"resume">> =>
             /\ TimerStep
             /\ lastEvent'.gen = generation'
             /\ lastEvent'.gen \notin resumedGens
      ]_vars

\* The timer was started twice, and the callback of the first start arrived
\* while the second was pending.
C7_Witness ==
    /\ lastEvent.kind = "timer"
    /\ lastEvent.gen < generation
    /\ generation >= 2
    /\ state = "PendingResume"

====
